---- MODULE Spec2Model ----
(***************************************************************************)
(* The recursive-descent parser of src/parser.py.  A Parser holds a        *)
(* scanner and one lookahead terminal; every production is a method that   *)
(* consumes terminals through the scanner and returns an AST node or       *)
(* raises.  A production is modelled as an operator from the parser's      *)
(* state to a result record                                                *)
(*     [p |-> parser state after the call,                                 *)
(*      val |-> returned value, exc |-> raised exception or NoExc].        *)
(* A raise ends every enclosing call at once: each caller tests Raised(r)  *)
(* after each call it makes, as Python's exception propagation does.       *)
(***************************************************************************)
EXTENDS Integers, Sequences, FiniteSets, TLC

VARIABLES source, parser, last

vars == <<source, parser, last>>

(***************************************************************************)
(* Terminals.  K is the token-kind enumeration the parser imports.         *)
(***************************************************************************)
K ==
  {"IDENTIFIER", "FUNC", "IF", "ELSE", "WHILE", "RETURN", "END",
   "LEFT_PAR", "RIGHT_PAR", "COLON", "SEMICOLON", "COMMA", "OPERATOR",
   "INTEGER_LITERAL", "BOOLEAN_LITERAL", "EOT"}

Tok(kind, spelling) == [kind |-> kind, spelling |-> spelling]

Terminal(kind, spelling, line, column) ==
  [kind |-> kind, spelling |-> spelling, line |-> line, column |-> column]

(***************************************************************************)
(* Python values that are not AST nodes.                                   *)
(***************************************************************************)
PyNone == [node |-> "None"]
PyTrue == [node |-> "True"]

(***************************************************************************)
(* AST nodes, one constructor per class the parser instantiates.           *)
(***************************************************************************)
Identifier(spelling) == [node |-> "Identifier", spelling |-> spelling]
IntegerLiteral(spelling) == [node |-> "IntegerLiteral", spelling |-> spelling]
Operator(spelling) == [node |-> "Operator", spelling |-> spelling]
TypeDenoter(spelling) == [node |-> "TypeDenoter", spelling |-> spelling]

Program(command) == [node |-> "Program", command |-> command]
Command(commands) == [node |-> "Command", commands |-> commands]
DeclarationCommand(declaration) ==
  [node |-> "DeclarationCommand", declaration |-> declaration]
StatementCommand(statement) ==
  [node |-> "StatementCommand", statement |-> statement]
Declaration(declarations) ==
  [node |-> "Declaration", declarations |-> declarations]
FuncDeclaration(identifier, args, commands) ==
  [node |-> "FuncDeclaration", identifier |-> identifier, args |-> args,
   commands |-> commands]
VarDeclaration(type_denoter, identifier) ==
  [node |-> "VarDeclaration", type_denoter |-> type_denoter,
   identifier |-> identifier]
VarDeclarationWithAssignment(type_denoter, identifier, operator, expression) ==
  [node |-> "VarDeclarationWithAssignment", type_denoter |-> type_denoter,
   identifier |-> identifier, operator |-> operator,
   expression |-> expression]
IfStatement(expr, ifCom, elseCom) ==
  [node |-> "IfStatement", expr |-> expr, ifCom |-> ifCom,
   elseCom |-> elseCom]
WhileStatement(expr, command) ==
  [node |-> "WhileStatement", expr |-> expr, command |-> command]
ReturnStatement(expression) ==
  [node |-> "ReturnStatement", expression |-> expression]
ExpressionStatement(expressions) ==
  [node |-> "ExpressionStatement", expressions |-> expressions]
BinaryExpression(operator, expression1, expression2) ==
  [node |-> "BinaryExpression", operator |-> operator,
   expression1 |-> expression1, expression2 |-> expression2]
UnaryExpression(operator, expression) ==
  [node |-> "UnaryExpression", operator |-> operator,
   expression |-> expression]
IntLiteralExpression(literal) ==
  [node |-> "IntLiteralExpression", literal |-> literal]
BooleanLiteralExpression(literal) ==
  [node |-> "BooleanLiteralExpression", literal |-> literal]
VarExpression(identifier) ==
  [node |-> "VarExpression", identifier |-> identifier]
CallExpression(name, args) ==
  [node |-> "CallExpression", name |-> name, args |-> args]
ExpressionsList(expressions) ==
  [node |-> "ExpressionsList", expressions |-> expressions]

(***************************************************************************)
(* Exceptions.  NoExc is "nothing raised".                                 *)
(***************************************************************************)
NoExc == [type |-> "NoExc"]

UnexpectedTokenException(expected_kind, current_token, line, column) ==
  [type |-> "UnexpectedTokenException", expected_kind |-> expected_kind,
   current_token |-> current_token, current_line |-> line,
   current_column |-> column]

UnsupportedFor(type, current_token, current_line, current_column) ==
  [type |-> type, current_token |-> current_token,
   current_line |-> current_line, current_column |-> current_column]

UnexpectedEndOfProgramException(current_token) ==
  [type |-> "UnexpectedEndOfProgramException",
   current_token |-> current_token]

\* Python's own error for reading a local variable that was never bound.
UnboundLocalError(name) == [type |-> "UnboundLocalError", name |-> name]

Ret(p, val) == [p |-> p, val |-> val, exc |-> NoExc]
Raise(p, exc) == [p |-> p, val |-> PyNone, exc |-> exc]
Raised(r) == r.exc # NoExc

(***************************************************************************)
(* The scanner (scanner.py is not among the sources; this is the           *)
(* collaborator the specification describes).  The source text is one      *)
(* line of tokens separated by single blanks.  rest holds the tokens not   *)
(* yet scanned; current_line/current_column are the cursor, which scan()   *)
(* leaves just behind the terminal it returns.  At the end of the text     *)
(* scan() returns the end-of-input terminal, every time it is asked.       *)
(* scans counts the calls of scan().                                       *)
(***************************************************************************)
Scanner(src) ==
  [rest |-> src, current_line |-> 1, current_column |-> 1, scans |-> 0]

scan(scanner) ==
  IF scanner.rest = << >>
  THEN [terminal |-> Terminal("EOT", "", scanner.current_line,
                              scanner.current_column),
        scanner |-> [scanner EXCEPT !.scans = @ + 1]]
  ELSE LET tok == Head(scanner.rest)
           start == IF scanner.scans = 0 THEN scanner.current_column
                    ELSE scanner.current_column + 1
       IN [terminal |-> Terminal(tok.kind, tok.spelling,
                                 scanner.current_line, start),
           scanner |-> [rest |-> Tail(scanner.rest),
                        current_line |-> scanner.current_line,
                        current_column |-> start + Len(tok.spelling),
                        scans |-> scanner.scans + 1]]

(***************************************************************************)
(* Parser.__init__: keeps the scanner and scans the first terminal.        *)
(***************************************************************************)
NewParser(src) ==
  LET s == scan(Scanner(src))
  IN [scanner |-> s.scanner, current_terminal |-> s.terminal]

\* self.current_terminal = self.scanner.scan()
Advance(p) ==
  LET s == scan(p.scanner)
  IN [scanner |-> s.scanner, current_terminal |-> s.terminal]

(***************************************************************************)
(* Terminal consumption primitives.                                        *)
(***************************************************************************)
\* Mutant: the rejected terminal is skipped before the raise.
accept_skipping(p, token) ==
  IF p.current_terminal.kind = token
  THEN Ret(Advance(p), PyTrue)
  ELSE Raise(Advance(p),
             UnexpectedTokenException(token, p.current_terminal,
                                      p.scanner.current_line,
                                      p.scanner.current_column))

accept(p, token) ==
  IF p.current_terminal.kind = token
  THEN Ret(Advance(p), PyTrue)
  ELSE Raise(p, UnexpectedTokenException(token, p.current_terminal,
                                         p.scanner.current_line,
                                         p.scanner.current_column))

\* No else-branch: on another kind the method falls off its end.
parse_integer_literal(p) ==
  IF p.current_terminal.kind = "INTEGER_LITERAL"
  THEN Ret(Advance(p), IntegerLiteral(p.current_terminal.spelling))
  ELSE Ret(p, PyNone)

\* Mutant: the lookahead is replaced whatever its kind.
parse_identifier_advancing(p) ==
  IF p.current_terminal.kind = "IDENTIFIER"
  THEN Ret(Advance(p), Identifier(p.current_terminal.spelling))
  ELSE Ret(Advance(p), PyNone)

parse_identifier(p) ==
  IF p.current_terminal.kind = "IDENTIFIER"
  THEN Ret(Advance(p), Identifier(p.current_terminal.spelling))
  ELSE Ret(p, PyNone)

parse_operator(p) ==
  IF p.current_terminal.kind = "OPERATOR"
  THEN Ret(Advance(p), Operator(p.current_terminal.spelling))
  ELSE Raise(p, UnexpectedTokenException("OPERATOR", p.current_terminal,
                                         p.scanner.current_line,
                                         p.scanner.current_column))

parse_type_denoter(p) ==
  LET r == parse_identifier(p)
  IN Ret(r.p, TypeDenoter(r.val))

(***************************************************************************)
(* Method calls.  The productions call one another recursively, so a call  *)
(* self.<method>() is Call(<method>, p, acc): Call selects the method's    *)
(* body by name.  acc is the list a while loop has built so far (the       *)
(* loop's next iteration is a call too) and PyNone for a method call.      *)
(***************************************************************************)
RECURSIVE Call(_, _, _)

self_parse_command(p) == Call("parse_command", p, PyNone)
self_parse_single_command(p) == Call("parse_single_command", p, PyNone)
self_parse_single_statement(p) == Call("parse_single_statement", p, PyNone)
self_parse_declaration(p) == Call("parse_declaration", p, PyNone)
self_parse_single_declaration(p) ==
  Call("parse_single_declaration", p, PyNone)
self_parse_expression(p) == Call("parse_expression", p, PyNone)
self_parse_single_expression(p) == Call("parse_single_expression", p, PyNone)
self_parse_expressions_list(p) == Call("parse_expressions_list", p, PyNone)

\* One statement of a method body and the statements after it: when the
\* call r raised, the rest is skipped and the exception goes to the caller;
\* otherwise the rest runs on the parser state and the value r returned.
Then(r, Rest(_, _)) == IF Raised(r) THEN r ELSE Rest(r.p, r.val)

\* A local variable that no statement has assigned.
Unbound == [node |-> "<unbound>"]

(***************************************************************************)
(* Expression productions.                                                 *)
(***************************************************************************)
\* The while loop of parse_expression, res being the tree built so far.
parse_expression_loop(p, res) ==
  IF p.current_terminal.kind = "OPERATOR"
  THEN Then(parse_operator(p), LAMBDA q1, operator :
       Then(self_parse_single_expression(q1), LAMBDA q2, tmp :
         Call("parse_expression_loop", q2,
              BinaryExpression(operator, res, tmp))))
  ELSE Ret(p, res)

parse_expression(p) ==
  Then(self_parse_single_expression(p), LAMBDA q1, res :
    parse_expression_loop(q1, res))

\* Mutant: the right operand is one single-expression, not the full chain.
IdentifierExpressionShort(q1, identifier) ==
  IF q1.current_terminal.kind = "LEFT_PAR"
  THEN Then(accept(q1, "LEFT_PAR"), LAMBDA q2, a2 :
       Then(self_parse_expressions_list(q2), LAMBDA q3, expressions_list :
       Then(accept(q3, "RIGHT_PAR"), LAMBDA q4, a4 :
         Ret(q4, CallExpression(identifier, expressions_list)))))
  ELSE IF q1.current_terminal.kind = "OPERATOR"
  THEN Then(parse_operator(q1), LAMBDA q2, operator :
       Then(self_parse_single_expression(q2), LAMBDA q3, expression :
         Ret(q3, BinaryExpression(operator, VarExpression(identifier),
                                  expression))))
  ELSE Ret(q1, VarExpression(identifier))

\* The IDENTIFIER branch of parse_single_expression, after parse_identifier.
IdentifierExpression(q1, identifier) ==
  IF q1.current_terminal.kind = "LEFT_PAR"
  THEN Then(accept(q1, "LEFT_PAR"), LAMBDA q2, a2 :
       Then(self_parse_expressions_list(q2), LAMBDA q3, expressions_list :
       Then(accept(q3, "RIGHT_PAR"), LAMBDA q4, a4 :
         Ret(q4, CallExpression(identifier, expressions_list)))))
  ELSE IF q1.current_terminal.kind = "OPERATOR"
  THEN Then(parse_operator(q1), LAMBDA q2, operator :
       Then(self_parse_expression(q2), LAMBDA q3, expression :
         Ret(q3, BinaryExpression(operator, VarExpression(identifier),
                                  expression))))
  ELSE Ret(q1, VarExpression(identifier))

parse_single_expression(p) ==
  IF p.current_terminal.kind = "INTEGER_LITERAL"
  THEN Then(parse_integer_literal(p), LAMBDA q1, literal :
         Ret(q1, IntLiteralExpression(literal)))
  ELSE IF p.current_terminal.kind = "BOOLEAN_LITERAL"
  THEN Then(parse_identifier(p), LAMBDA q1, boolean :
         Ret(q1, BooleanLiteralExpression(boolean)))
  ELSE IF p.current_terminal.kind = "OPERATOR"
  THEN Then(parse_operator(p), LAMBDA q1, operator :
       Then(self_parse_single_expression(q1), LAMBDA q2, expression :
         Ret(q2, UnaryExpression(operator, expression))))
  ELSE IF p.current_terminal.kind = "IDENTIFIER"
  THEN Then(parse_identifier(p), LAMBDA q1, identifier :
         IdentifierExpression(q1, identifier))
  ELSE Raise(p, UnsupportedFor("UnsupportedExpressionTokenException",
                               p.current_terminal, p.scanner.current_line,
                               p.scanner.current_column))

\* The while loop of parse_expressions_list, exps being the list so far.
parse_expressions_list_loop(p, exps) ==
  IF p.current_terminal.kind = "COMMA"
  THEN Then(accept(p, "COMMA"), LAMBDA q1, a1 :
       Then(self_parse_expression(q1), LAMBDA q2, expression :
         Call("parse_expressions_list_loop", q2, Append(exps, expression))))
  ELSE Ret(p, ExpressionsList(exps))

\* Mutant: a lookahead that starts no expression gives the empty list.
parse_expressions_list_empty(p) ==
  IF p.current_terminal.kind \in
       {"IDENTIFIER", "INTEGER_LITERAL", "OPERATOR", "BOOLEAN_LITERAL"}
  THEN Then(self_parse_expression(p), LAMBDA q1, expression :
         parse_expressions_list_loop(q1, <<expression>>))
  ELSE Ret(p, ExpressionsList(<< >>))

\* No else-branch: a lookahead that starts no expression returns None.
parse_expressions_list(p) ==
  IF p.current_terminal.kind \in
       {"IDENTIFIER", "INTEGER_LITERAL", "OPERATOR", "BOOLEAN_LITERAL"}
  THEN Then(self_parse_expression(p), LAMBDA q1, expression :
         parse_expressions_list_loop(q1, <<expression>>))
  ELSE Ret(p, PyNone)

(***************************************************************************)
(* Command, statement and declaration productions.                         *)
(***************************************************************************)
TypeNames == {"int", "str", "bool"}

CommandStart == {"IDENTIFIER", "FUNC", "IF", "WHILE", "RETURN"}

\* Mutant: an if where the loop is, so one command is parsed at most.
parse_command_once(p, commands) ==
  IF p.current_terminal.kind \in CommandStart
  THEN Then(self_parse_single_command(p), LAMBDA q1, single :
         Ret(q1, Command(Append(commands, single))))
  ELSE Ret(p, Command(commands))

\* The while loop of parse_command, commands being the list so far.
parse_command_loop(p, commands) ==
  IF p.current_terminal.kind \in CommandStart
  THEN Then(self_parse_single_command(p), LAMBDA q1, single :
         Call("parse_command_loop", q1, Append(commands, single)))
  ELSE Ret(p, Command(commands))

parse_command(p) == parse_command_loop(p, << >>)

\* Mutant: a lookahead that starts no declaration is rejected when no
\* declaration has been parsed.
parse_declaration_some(p, declarations) ==
  IF \/ p.current_terminal.kind = "FUNC"
     \/ p.current_terminal.spelling \in TypeNames
  THEN Then(self_parse_single_declaration(p), LAMBDA q1, single :
         Call("parse_declaration_loop", q1, Append(declarations, single)))
  ELSE IF declarations = << >>
  THEN Raise(p, UnsupportedFor("UnsupportedDeclarationTokenException",
                               p.current_terminal, p.scanner.current_line,
                               p.scanner.current_column))
  ELSE Ret(p, Declaration(declarations))

\* The while loop of parse_declaration.
parse_declaration_loop(p, declarations) ==
  IF \/ p.current_terminal.kind = "FUNC"
     \/ p.current_terminal.spelling \in TypeNames
  THEN Then(self_parse_single_declaration(p), LAMBDA q1, single :
         Call("parse_declaration_loop", q1, Append(declarations, single)))
  ELSE Ret(p, Declaration(declarations))

parse_declaration(p) == parse_declaration_loop(p, << >>)

\* Mutant: the return/if/while branch requires a statement terminator too.
parse_single_command_terminated(p) ==
  IF p.current_terminal.kind = "FUNC"
  THEN Then(self_parse_declaration(p), LAMBDA q1, declaration :
         Ret(q1, DeclarationCommand(declaration)))
  ELSE IF p.current_terminal.kind \in {"RETURN", "IF", "WHILE"}
  THEN Then(self_parse_single_statement(p), LAMBDA q1, statement :
       Then(accept(q1, "SEMICOLON"), LAMBDA q2, a2 :
         Ret(q2, StatementCommand(statement))))
  ELSE IF p.current_terminal.kind = "IDENTIFIER"
  THEN IF p.current_terminal.spelling \in TypeNames
       THEN Then(self_parse_declaration(p), LAMBDA q1, declaration :
            Then(accept(q1, "SEMICOLON"), LAMBDA q2, a2 :
              Ret(q2, DeclarationCommand(declaration))))
       ELSE Then(self_parse_single_statement(p), LAMBDA q1, statement :
            Then(accept(q1, "SEMICOLON"), LAMBDA q2, a2 :
              Ret(q2, StatementCommand(statement))))
  ELSE Raise(p, UnsupportedFor("UnsupportedCommandTokenException",
                               p.current_terminal, p.scanner.current_line,
                               p.scanner.current_column))

parse_single_command(p) ==
  IF p.current_terminal.kind = "FUNC"
  THEN Then(self_parse_declaration(p), LAMBDA q1, declaration :
         Ret(q1, DeclarationCommand(declaration)))
  ELSE IF p.current_terminal.kind \in {"RETURN", "IF", "WHILE"}
  THEN Then(self_parse_single_statement(p), LAMBDA q1, statement :
         Ret(q1, StatementCommand(statement)))
  ELSE IF p.current_terminal.kind = "IDENTIFIER"
  THEN IF p.current_terminal.spelling \in TypeNames
       THEN Then(self_parse_declaration(p), LAMBDA q1, declaration :
            Then(accept(q1, "SEMICOLON"), LAMBDA q2, a2 :
              Ret(q2, DeclarationCommand(declaration))))
       ELSE Then(self_parse_single_statement(p), LAMBDA q1, statement :
            Then(accept(q1, "SEMICOLON"), LAMBDA q2, a2 :
              Ret(q2, StatementCommand(statement))))
  ELSE Raise(p, UnsupportedFor("UnsupportedCommandTokenException",
                               p.current_terminal, p.scanner.current_line,
                               p.scanner.current_column))

\* if ELSE: accept(ELSE); accept(COLON); elseBlock = parse_command().
\* Without the else-keyword elseBlock stays unassigned.
ElseBranch(p) ==
  IF p.current_terminal.kind = "ELSE"
  THEN Then(accept(p, "ELSE"), LAMBDA q1, a1 :
       Then(accept(q1, "COLON"), LAMBDA q2, a2 :
         self_parse_command(q2)))
  ELSE Ret(p, Unbound)

\* Mutant: return takes the full operator-chaining expression production.
parse_single_statement_chained(p) ==
  IF p.current_terminal.kind = "IF"
  THEN Then(accept(p, "IF"), LAMBDA q1, a1 :
       Then(accept(q1, "LEFT_PAR"), LAMBDA q2, a2 :
       Then(self_parse_expression(q2), LAMBDA q3, expression :
       Then(accept(q3, "RIGHT_PAR"), LAMBDA q4, a4 :
       Then(accept(q4, "COLON"), LAMBDA q5, a5 :
       Then(self_parse_command(q5), LAMBDA q6, ifBlock :
       Then(ElseBranch(q6), LAMBDA q7, elseBlock :
       Then(accept(q7, "END"), LAMBDA q8, a8 :
         IF elseBlock = Unbound
         THEN \* reading the unassigned local raises
              Raise(q8, UnboundLocalError("elseBlock"))
         ELSE Ret(q8, IfStatement(expression, ifBlock, elseBlock))))))))))
  ELSE IF p.current_terminal.kind = "WHILE"
  THEN Then(accept(p, "WHILE"), LAMBDA q1, a1 :
       Then(accept(q1, "LEFT_PAR"), LAMBDA q2, a2 :
       Then(self_parse_expression(q2), LAMBDA q3, expression :
       Then(accept(q3, "RIGHT_PAR"), LAMBDA q4, a4 :
       Then(accept(q4, "COLON"), LAMBDA q5, a5 :
       Then(self_parse_command(q5), LAMBDA q6, command :
       Then(accept(q6, "END"), LAMBDA q7, a7 :
         Ret(q7, WhileStatement(expression, command)))))))))
  ELSE IF p.current_terminal.kind = "RETURN"
  THEN Then(accept(p, "RETURN"), LAMBDA q1, a1 :
       Then(self_parse_expression(q1), LAMBDA q2, expression :
         Ret(q2, ReturnStatement(expression))))
  ELSE IF p.current_terminal.kind = "IDENTIFIER"
  THEN Then(self_parse_expression(p), LAMBDA q1, expressions :
         Ret(q1, ExpressionStatement(expressions)))
  ELSE \* no branch taken: the method falls off its end
       Ret(p, PyNone)

parse_single_statement(p) ==
  IF p.current_terminal.kind = "IF"
  THEN Then(accept(p, "IF"), LAMBDA q1, a1 :
       Then(accept(q1, "LEFT_PAR"), LAMBDA q2, a2 :
       Then(self_parse_expression(q2), LAMBDA q3, expression :
       Then(accept(q3, "RIGHT_PAR"), LAMBDA q4, a4 :
       Then(accept(q4, "COLON"), LAMBDA q5, a5 :
       Then(self_parse_command(q5), LAMBDA q6, ifBlock :
       Then(ElseBranch(q6), LAMBDA q7, elseBlock :
       Then(accept(q7, "END"), LAMBDA q8, a8 :
         IF elseBlock = Unbound
         THEN \* reading the unassigned local raises
              Raise(q8, UnboundLocalError("elseBlock"))
         ELSE Ret(q8, IfStatement(expression, ifBlock, elseBlock))))))))))
  ELSE IF p.current_terminal.kind = "WHILE"
  THEN Then(accept(p, "WHILE"), LAMBDA q1, a1 :
       Then(accept(q1, "LEFT_PAR"), LAMBDA q2, a2 :
       Then(self_parse_expression(q2), LAMBDA q3, expression :
       Then(accept(q3, "RIGHT_PAR"), LAMBDA q4, a4 :
       Then(accept(q4, "COLON"), LAMBDA q5, a5 :
       Then(self_parse_command(q5), LAMBDA q6, command :
       Then(accept(q6, "END"), LAMBDA q7, a7 :
         Ret(q7, WhileStatement(expression, command)))))))))
  ELSE IF p.current_terminal.kind = "RETURN"
  THEN Then(accept(p, "RETURN"), LAMBDA q1, a1 :
       Then(self_parse_single_expression(q1), LAMBDA q2, expression :
         Ret(q2, ReturnStatement(expression))))
  ELSE IF p.current_terminal.kind = "IDENTIFIER"
  THEN Then(self_parse_expression(p), LAMBDA q1, expressions :
         Ret(q1, ExpressionStatement(expressions)))
  ELSE \* no branch taken: the method falls off its end
       Ret(p, PyNone)

\* Mutant: the node keeps the second parse_command's result.
parse_single_declaration_second(p) ==
  IF p.current_terminal.kind = "FUNC"
  THEN Then(accept(p, "FUNC"), LAMBDA q1, a1 :
       \* identifier = self.accept(K.IDENTIFIER): accept's return value
       Then(accept(q1, "IDENTIFIER"), LAMBDA q2, identifier :
       Then(accept(q2, "LEFT_PAR"), LAMBDA q3, a3 :
       Then(self_parse_expressions_list(q3), LAMBDA q4, args :
       Then(accept(q4, "RIGHT_PAR"), LAMBDA q5, a5 :
       Then(accept(q5, "COLON"), LAMBDA q6, a6 :
       Then(self_parse_command(q6), LAMBDA q7, commands :
       Then(self_parse_command(q7), LAMBDA q8, discarded :
       Then(accept(q8, "END"), LAMBDA q9, a9 :
         Ret(q9, FuncDeclaration(identifier, args, discarded)))))))))))
  ELSE IF p.current_terminal.kind = "IDENTIFIER"
  THEN Then(parse_type_denoter(p), LAMBDA q1, type_denoter :
       Then(parse_identifier(q1), LAMBDA q2, identifier :
         IF q2.current_terminal.kind = "OPERATOR"
         THEN Then(parse_operator(q2), LAMBDA q3, operator :
              Then(self_parse_expression(q3), LAMBDA q4, expression :
                Ret(q4, VarDeclarationWithAssignment(
                          type_denoter, identifier, operator, expression))))
         ELSE Ret(q2, VarDeclaration(type_denoter, identifier))))
  ELSE Raise(p, UnsupportedFor("UnsupportedDeclarationTokenException",
                               p.current_terminal, p.scanner.current_line,
                               p.scanner.current_column))

parse_single_declaration(p) ==
  IF p.current_terminal.kind = "FUNC"
  THEN Then(accept(p, "FUNC"), LAMBDA q1, a1 :
       \* identifier = self.accept(K.IDENTIFIER): accept's return value
       Then(accept(q1, "IDENTIFIER"), LAMBDA q2, identifier :
       Then(accept(q2, "LEFT_PAR"), LAMBDA q3, a3 :
       Then(self_parse_expressions_list(q3), LAMBDA q4, args :
       Then(accept(q4, "RIGHT_PAR"), LAMBDA q5, a5 :
       Then(accept(q5, "COLON"), LAMBDA q6, a6 :
       Then(self_parse_command(q6), LAMBDA q7, commands :
       Then(self_parse_command(q7), LAMBDA q8, discarded :
       Then(accept(q8, "END"), LAMBDA q9, a9 :
         Ret(q9, FuncDeclaration(identifier, args, commands)))))))))))
  ELSE IF p.current_terminal.kind = "IDENTIFIER"
  THEN Then(parse_type_denoter(p), LAMBDA q1, type_denoter :
       Then(parse_identifier(q1), LAMBDA q2, identifier :
         IF q2.current_terminal.kind = "OPERATOR"
         THEN Then(parse_operator(q2), LAMBDA q3, operator :
              Then(self_parse_expression(q3), LAMBDA q4, expression :
                Ret(q4, VarDeclarationWithAssignment(
                          type_denoter, identifier, operator, expression))))
         ELSE Ret(q2, VarDeclaration(type_denoter, identifier))))
  ELSE Raise(p, UnsupportedFor("UnsupportedDeclarationTokenException",
                               p.current_terminal, p.scanner.current_line,
                               p.scanner.current_column))

Call(method, p, acc) ==
  CASE method = "parse_command" -> parse_command(p)
    [] method = "parse_command_loop" -> parse_command_loop(p, acc)
    [] method = "parse_single_command" -> parse_single_command(p)
    [] method = "parse_single_statement" -> parse_single_statement(p)
    [] method = "parse_declaration" -> parse_declaration(p)
    [] method = "parse_declaration_loop" -> parse_declaration_loop(p, acc)
    [] method = "parse_single_declaration" -> parse_single_declaration(p)
    [] method = "parse_expression" -> parse_expression(p)
    [] method = "parse_expression_loop" -> parse_expression_loop(p, acc)
    [] method = "parse_single_expression" -> parse_single_expression(p)
    [] method = "parse_expressions_list" -> parse_expressions_list(p)
    [] method = "parse_expressions_list_loop" ->
         parse_expressions_list_loop(p, acc)

\* Mutant: the end-of-input test left out.
parse_program_unchecked(p) ==
  Then(self_parse_command(p), LAMBDA q1, command :
    Ret(q1, Program(command)))

parse_program(p) ==
  Then(self_parse_command(p), LAMBDA q1, command :
    IF q1.current_terminal.kind # "EOT"
    THEN Raise(q1, UnexpectedEndOfProgramException(q1.current_terminal))
    ELSE Ret(q1, Program(command)))

(***************************************************************************)
(* Source texts, as the token sequences the scanner makes of them.         *)
(***************************************************************************)
Id(s) == Tok("IDENTIFIER", s)
Op(s) == Tok("OPERATOR", s)
IntLit(s) == Tok("INTEGER_LITERAL", s)
BoolLit(s) == Tok("BOOLEAN_LITERAL", s)
FUNC == Tok("FUNC", "func")
IF_ == Tok("IF", "if")
ELSE_ == Tok("ELSE", "else")
WHILE == Tok("WHILE", "while")
RETURN == Tok("RETURN", "return")
END == Tok("END", "end")
LPAR == Tok("LEFT_PAR", "(")
RPAR == Tok("RIGHT_PAR", ")")
COLON == Tok("COLON", ":")
SEMI == Tok("SEMICOLON", ";")
COMMA == Tok("COMMA", ",")

\* One token of every kind the scanner produces before the end of input,
\* with a type name beside an ordinary identifier.
Alphabet ==
  {Id("a"), Id("int"), Op("+"), IntLit("1"), BoolLit("true"), FUNC, IF_, ELSE_,
   WHILE, RETURN, END, LPAR, RPAR, COLON, SEMI, COMMA}

\* Every source text of at most MaxLen tokens.
MaxLen == 3

ShortSources == UNION {[1..n -> Alphabet] : n \in 0..MaxLen}

\* func add(a, b): return a + b; end
FuncAdd ==
  <<FUNC, Id("add"), LPAR, Id("a"), COMMA, Id("b"), RPAR, COLON,
    RETURN, Id("a"), Op("+"), Id("b"), SEMI, END>>

\* func add(a, b): return a + b end
FuncAddBare ==
  <<FUNC, Id("add"), LPAR, Id("a"), COMMA, Id("b"), RPAR, COLON,
    RETURN, Id("a"), Op("+"), Id("b"), END>>

\* int x; while (x): x = x + 1; end
IntWhile ==
  <<Id("int"), Id("x"), SEMI, WHILE, LPAR, Id("x"), RPAR, COLON,
    Id("x"), Op("="), Id("x"), Op("+"), IntLit("1"), SEMI, END>>

\* if (x) : y; end
IfNoElse == <<IF_, LPAR, Id("x"), RPAR, COLON, Id("y"), SEMI, END>>

\* if (x) : y; else : z; end
IfElse ==
  <<IF_, LPAR, Id("x"), RPAR, COLON, Id("y"), SEMI,
    ELSE_, COLON, Id("z"), SEMI, END>>

\* func f(a): end func g(b): end
TwoFuncs ==
  <<FUNC, Id("f"), LPAR, Id("a"), RPAR, COLON, END,
    FUNC, Id("g"), LPAR, Id("b"), RPAR, COLON, END>>

\* a + b + c;
IdChain == <<Id("a"), Op("+"), Id("b"), Op("+"), Id("c"), SEMI>>

\* 1 + 2 - 3 * 4
LitChain ==
  <<IntLit("1"), Op("+"), IntLit("2"), Op("-"), IntLit("3"), Op("*"), IntLit("4")>>

\* 1 + f(2) * 3
CallChain ==
  <<IntLit("1"), Op("+"), Id("f"), LPAR, IntLit("2"), RPAR, Op("*"), IntLit("3")>>

\* while (true) : end
WhileTrue == <<WHILE, LPAR, BoolLit("true"), RPAR, COLON, END>>

\* f(a, 1);
CallStmt == <<Id("f"), LPAR, Id("a"), COMMA, IntLit("1"), RPAR, SEMI>>

\* int x = 1; return x
IntAssign ==
  <<Id("int"), Id("x"), Op("="), IntLit("1"), SEMI, RETURN, Id("x")>>

\* return a + b
ReturnSum == <<RETURN, Id("a"), Op("+"), Id("b")>>

\* return 1 + 2
ReturnLit == <<RETURN, IntLit("1"), Op("+"), IntLit("2")>>

\* func f(): end
FuncNoArgs == <<FUNC, Id("f"), LPAR, RPAR, COLON, END>>

Scenarios ==
  {FuncNoArgs, FuncAdd, FuncAddBare, IntWhile, IfNoElse, IfElse, TwoFuncs, IdChain,
   LitChain, CallChain, WhileTrue, CallStmt, IntAssign, ReturnSum, ReturnLit}

\* A scenario cut short, or with one token replaced by another.
Prefixes(s) == {SubSeq(s, 1, n) : n \in 0..Len(s)}
Replaced(s) == {[s EXCEPT ![i] = t] : i \in 1..Len(s), t \in Alphabet}

Sources ==
  ShortSources \cup Scenarios
    \cup UNION {Prefixes(s) \cup Replaced(s) : s \in Scenarios}

(***************************************************************************)
(* The state machine: a Parser is constructed on a source text and one of  *)
(* its methods is called.  last records that call: the method, accept's    *)
(* argument, and what the call returned or raised.                         *)
(***************************************************************************)
Called(op, arg, r) ==
  [op |-> op, arg |-> arg, val |-> r.val, exc |-> r.exc]

Fresh == last.op = "__init__"

Init ==
  /\ source \in Sources
  /\ parser = NewParser(source)
  /\ last = Called("__init__", "", Ret(parser, PyNone))

Invoke(op, arg, r) ==
  /\ Fresh
  /\ parser' = r.p
  /\ last' = Called(op, arg, r)
  /\ UNCHANGED source

ParseProgram == Invoke("parse_program", "", parse_program(parser))
ParseCommand == Invoke("parse_command", "", parse_command(parser))
ParseSingleCommand ==
  Invoke("parse_single_command", "", parse_single_command(parser))
ParseSingleStatement ==
  Invoke("parse_single_statement", "", parse_single_statement(parser))
ParseDeclaration == Invoke("parse_declaration", "", parse_declaration(parser))
ParseSingleDeclaration ==
  Invoke("parse_single_declaration", "", parse_single_declaration(parser))
ParseExpression == Invoke("parse_expression", "", parse_expression(parser))
ParseSingleExpression ==
  Invoke("parse_single_expression", "", parse_single_expression(parser))
ParseExpressionsList ==
  Invoke("parse_expressions_list", "", parse_expressions_list(parser))
ParseTypeDenoter == Invoke("parse_type_denoter", "", parse_type_denoter(parser))
ParseIntegerLiteral ==
  Invoke("parse_integer_literal", "", parse_integer_literal(parser))
ParseIdentifier == Invoke("parse_identifier", "", parse_identifier(parser))
ParseOperator == Invoke("parse_operator", "", parse_operator(parser))
Accept == \E token \in K : Invoke("accept", token, accept(parser, token))

Next ==
  \/ ParseProgram
  \/ ParseCommand
  \/ ParseSingleCommand
  \/ ParseSingleStatement
  \/ ParseDeclaration
  \/ ParseSingleDeclaration
  \/ ParseExpression
  \/ ParseSingleExpression
  \/ ParseExpressionsList
  \/ ParseTypeDenoter
  \/ ParseIntegerLiteral
  \/ ParseIdentifier
  \/ ParseOperator
  \/ Accept

Spec == Init /\ [][Next]_vars

(***************************************************************************)
(* Properties.  Every call is made on the parser as constructed on         *)
(* source, so a property of a call reads its starting state from source.   *)
(***************************************************************************)
Constructed == NewParser(source)

Returned(op) == last.op = op /\ last.exc = NoExc

Var(s) == VarExpression(Identifier(s))

\* The k-th terminal of the source text as the lookahead shows it (kind
\* and spelling), the end-of-input terminal behind the last token.
TerminalAt(k) ==
  IF k <= Len(source) THEN source[k] ELSE Tok("EOT", "")

Shows(terminal, tok) ==
  terminal.kind = tok.kind /\ terminal.spelling = tok.spelling

(***************************************************************************)
(* C1.  parse_program on `func add(a, b): return a + b; end` succeeds and  *)
(* returns a Program whose single command wraps a FuncDeclaration with     *)
(* identifier spelling "add", an argument list of exactly the two          *)
(* elements VarExpression a and VarExpression b, and a body Command whose  *)
(* single element is a ReturnStatement wrapping                            *)
(* BinaryExpression(+, VarExpression(a), VarExpression(b)).                *)
(***************************************************************************)
IsFuncAdd(func) ==
  /\ func.node = "FuncDeclaration"
  /\ func.identifier = Identifier("add")
  /\ func.args = ExpressionsList(<<Var("a"), Var("b")>>)
  /\ func.commands.node = "Command"
  /\ Len(func.commands.commands) = 1
  /\ func.commands.commands[1].node = "StatementCommand"
  /\ func.commands.commands[1].statement =
       ReturnStatement(BinaryExpression(Operator("+"), Var("a"), Var("b")))

C1_FuncAddParses ==
  (source = FuncAdd /\ last.op = "parse_program") =>
    /\ last.exc = NoExc
    /\ last.val.node = "Program"
    /\ Len(last.val.command.commands) = 1
    /\ last.val.command.commands[1].node = "DeclarationCommand"
    /\ Len(last.val.command.commands[1].declaration.declarations) = 1
    /\ IsFuncAdd(last.val.command.commands[1].declaration.declarations[1])

(***************************************************************************)
(* C2.  An if-statement with no else-keyword before `end`, such as         *)
(* `if (x) : y; end`, parses to an IfStatement whose else-branch is        *)
(* explicitly absent (not a Command); with the else-keyword present the    *)
(* else-branch is the Command parsed after `else :`.                       *)
(***************************************************************************)
ExprStmt(s) == StatementCommand(ExpressionStatement(Var(s)))

C2_MissingElse ==
  /\ (source = IfNoElse /\ last.op = "parse_single_statement") =>
       /\ last.exc = NoExc
       /\ last.val.node = "IfStatement"
       /\ last.val.ifCom = Command(<<ExprStmt("y")>>)
       /\ last.val.elseCom = PyNone
  /\ (source = IfElse /\ last.op = "parse_single_statement") =>
       /\ last.exc = NoExc
       /\ last.val.node = "IfStatement"
       /\ last.val.elseCom = Command(<<ExprStmt("z")>>)

(***************************************************************************)
(* C3.  parse_program returns Program(command) exactly when the lookahead  *)
(* after the top-level parse_command is the end-of-input terminal; on any  *)
(* other lookahead it raises UnexpectedEndOfProgram carrying that          *)
(* lookahead terminal and returns nothing.  (An exception raised inside    *)
(* parse_command is the call's outcome as it stands.)                      *)
(***************************************************************************)
C3_ProgramIffEndOfInput ==
  last.op = "parse_program" =>
    LET command == parse_command(Constructed)
    IN IF Raised(command)
       THEN last.exc = command.exc /\ last.val = PyNone
       ELSE IF command.p.current_terminal.kind = "EOT"
       THEN /\ last.exc = NoExc
            /\ last.val = Program(command.val)
       ELSE /\ last.exc =
                 UnexpectedEndOfProgramException(command.p.current_terminal)
            /\ last.exc.current_token.kind # "EOT"
            /\ last.val = PyNone

\* Trailing tokens behind a parsed command: `a ; )`.
C3_Witness ==
  /\ last.op = "parse_program"
  /\ source = <<Id("a"), SEMI, RPAR>>
  /\ last.exc.type = "UnexpectedEndOfProgramException"
  /\ last.exc.current_token.kind = "RIGHT_PAR"

(***************************************************************************)
(* C4.  parse_program on `int x; while (x): x = x + 1; end` returns a      *)
(* Program whose Command has exactly two elements in source order: a       *)
(* declaration command holding a VarDeclaration of x with type int, then   *)
(* a statement command holding a WhileStatement whose body Command has     *)
(* exactly one element, an ExpressionStatement.                            *)
(***************************************************************************)
C4_IntWhileParses ==
  (source = IntWhile /\ last.op = "parse_program") =>
    /\ last.exc = NoExc
    /\ last.val.node = "Program"
    /\ Len(last.val.command.commands) = 2
    /\ last.val.command.commands[1] =
         DeclarationCommand(Declaration(
           <<VarDeclaration(TypeDenoter(Identifier("int")),
                            Identifier("x"))>>))
    /\ last.val.command.commands[2].node = "StatementCommand"
    /\ LET while == last.val.command.commands[2].statement
       IN /\ while.node = "WhileStatement"
          /\ while.expr = Var("x")
          /\ while.command.node = "Command"
          /\ Len(while.command.commands) = 1
          /\ while.command.commands[1].node = "StatementCommand"
          /\ while.command.commands[1].statement.node = "ExpressionStatement"

C4_Witness == source = IntWhile /\ Returned("parse_program")

(***************************************************************************)
(* C5.  Whenever parse_program succeeds, the length of the Program's       *)
(* top-level Command sequence is the number of top-level commands of the   *)
(* input: one for each function declaration, if, while and return          *)
(* statement, and one for each terminated variable declaration or          *)
(* expression statement; two adjacent `func ... end` blocks make two.      *)
(***************************************************************************)
RECURSIVE TopLevelCommands(_, _)
\* Counts, in toks, the func/if/while/return keywords and the statement
\* terminators that are inside no func/if/while ... end block; depth is
\* the number of blocks open.
TopLevelCommands(toks, depth) ==
  IF toks = << >> THEN 0
  ELSE LET kind == Head(toks).kind
           here == IF depth = 0 THEN 1 ELSE 0
       IN CASE kind \in {"FUNC", "IF", "WHILE"} ->
                 here + TopLevelCommands(Tail(toks), depth + 1)
            [] kind \in {"RETURN", "SEMICOLON"} ->
                 here + TopLevelCommands(Tail(toks), depth)
            [] kind = "END" ->
                 TopLevelCommands(Tail(toks),
                                  IF depth > 0 THEN depth - 1 ELSE 0)
            [] OTHER -> TopLevelCommands(Tail(toks), depth)

C5_CommandCount ==
  Returned("parse_program") =>
    Len(last.val.command.commands) = TopLevelCommands(source, 0)

(***************************************************************************)
(* C6.  parse_expression is strictly left-associative: a chain             *)
(* x1 op1 x2 ... xn of identifiers and integer literals parses to the left *)
(* fold BinaryExpression(op_{n-1}, ... BinaryExpression(op1, x1, x2) ...,  *)
(* xn), never to a right-nested tree; `a + b + c` parses as                *)
(* BinaryExpression(+, BinaryExpression(+, a, b), c).                      *)
(***************************************************************************)
IsChain(toks) ==
  /\ Len(toks) >= 3
  /\ Len(toks) % 2 = 1
  /\ \A i \in 1..Len(toks) :
       IF i % 2 = 1 THEN toks[i].kind \in {"IDENTIFIER", "INTEGER_LITERAL"}
       ELSE toks[i].kind = "OPERATOR"

Operand(tok) ==
  IF tok.kind = "IDENTIFIER" THEN Var(tok.spelling)
  ELSE IntLiteralExpression(IntegerLiteral(tok.spelling))

RECURSIVE LeftFold(_, _)
\* The left fold of the first n tokens of a chain (n odd).
LeftFold(toks, n) ==
  IF n = 1 THEN Operand(toks[1])
  ELSE BinaryExpression(Operator(toks[n - 1].spelling),
                        LeftFold(toks, n - 2), Operand(toks[n]))

C6_LeftAssociative ==
  (last.op = "parse_expression" /\ IsChain(source)) =>
    /\ last.exc = NoExc
    /\ last.val = LeftFold(source, Len(source))

(***************************************************************************)
(* C7.  parse_single_expression on an identifier directly followed by an   *)
(* operator returns BinaryExpression(operator, VarExpression(identifier),  *)
(* E), E being the result of the full parse_expression on the remaining    *)
(* terminals, so `a + b + c` yields                                        *)
(* BinaryExpression(+, a, BinaryExpression(+, b, c)); an identifier        *)
(* followed by `(` yields a CallExpression; before any other terminal it   *)
(* yields VarExpression(identifier) with only the identifier consumed.     *)
(***************************************************************************)
\* The text behind its first n terminals: what the scanner still holds when
\* the n-th terminal is the lookahead.
Unscanned(n) == SubSeq(source, n + 1, Len(source))

ABC == <<Id("a"), Op("+"), Id("b"), Op("+"), Id("c")>>

RightNestedABC ==
  BinaryExpression(Operator("+"), Var("a"),
                   BinaryExpression(Operator("+"), Var("b"), Var("c")))

C7_IdentifierLed ==
  (last.op = "parse_single_expression" /\ TerminalAt(1).kind = "IDENTIFIER")
  => LET identifier == Identifier(source[1].spelling)
         follower == TerminalAt(2)
     IN /\ follower.kind = "OPERATOR" =>
             LET E == parse_expression(Advance(Advance(Constructed)))
             IN IF Raised(E) THEN last.exc = E.exc
                ELSE /\ last.exc = NoExc
                     /\ last.val = BinaryExpression(
                                     Operator(follower.spelling),
                                     VarExpression(identifier), E.val)
                     /\ parser = E.p
        /\ source = ABC => last.val = RightNestedABC
        /\ (follower.kind = "LEFT_PAR" /\ last.exc = NoExc) =>
             /\ last.val.node = "CallExpression"
             /\ last.val.name = identifier
        /\ follower.kind \notin {"OPERATOR", "LEFT_PAR"} =>
             /\ last.exc = NoExc
             /\ last.val = VarExpression(identifier)
             /\ parser.scanner.rest = Unscanned(2)
             /\ Shows(parser.current_terminal, follower)

C7_Witness ==
  /\ source = ABC
  /\ Returned("parse_single_expression")
  /\ last.val = RightNestedABC
  /\ parser.current_terminal.kind = "EOT"

(***************************************************************************)
(* C8.  An UnexpectedToken diagnostic carries the line and column of the   *)
(* offending terminal itself (the lookahead accept rejected), wherever     *)
(* that terminal stands in the text, not the scanner's cursor behind it.   *)
(***************************************************************************)
C8_DiagnosticPosition ==
  (/\ last.exc.type = "UnexpectedTokenException"
   /\ (last.op = "accept" \/ last.exc.expected_kind # "OPERATOR")) =>
    /\ last.exc.current_line = last.exc.current_token.line
    /\ last.exc.current_column = last.exc.current_token.column

(***************************************************************************)
(* C9.  A run of parse_program ends in one of two ways: a Program is       *)
(* returned, or one of the five diagnostics is raised; nothing else can    *)
(* come out of it, and after a failure nothing is returned and the         *)
(* lookahead is still the terminal the diagnostic names.                   *)
(***************************************************************************)
Taxonomy ==
  {"UnexpectedTokenException", "UnsupportedCommandTokenException",
   "UnsupportedDeclarationTokenException",
   "UnsupportedExpressionTokenException",
   "UnexpectedEndOfProgramException"}

C9_ProgramOrDiagnostic ==
  last.op = "parse_program" =>
    \/ last.exc = NoExc /\ last.val.node = "Program"
    \/ /\ last.exc.type \in Taxonomy
       /\ last.val = PyNone
       /\ last.exc.current_token = parser.current_terminal

(***************************************************************************)
(* C10.  accept(expected_kind): when the lookahead has that kind the       *)
(* stream advances by exactly one terminal (the lookahead becomes the      *)
(* next terminal of the text) and True is returned; otherwise              *)
(* UnexpectedToken is raised with the expected kind and the lookahead, and *)
(* lookahead and scanner are as they were.                                 *)
(***************************************************************************)
C10_Accept ==
  last.op = "accept" =>
    IF TerminalAt(1).kind = last.arg
    THEN /\ last.exc = NoExc
         /\ last.val = PyTrue
         /\ Shows(parser.current_terminal, TerminalAt(2))
         /\ parser.scanner.rest = Unscanned(2)
         /\ parser.scanner.scans = Constructed.scanner.scans + 1
    ELSE /\ last.exc.type = "UnexpectedTokenException"
         /\ last.exc.expected_kind = last.arg
         /\ last.exc.current_token = Constructed.current_terminal
         /\ Shows(last.exc.current_token, TerminalAt(1))
         /\ parser = Constructed

\* accept(COLON) on `: a`.
C10_Witness ==
  /\ source = <<COLON, Id("a")>>
  /\ Returned("accept")
  /\ last.arg = "COLON"
  /\ parser.current_terminal.spelling = "a"

(***************************************************************************)
(* C11.  parse_single_command dispatches on the lookahead: the             *)
(* function-keyword gives the DeclarationCommand of parse_declaration and  *)
(* return/if/while give the StatementCommand of parse_single_statement,    *)
(* with nothing consumed behind the production; an identifier spelled      *)
(* int, str or bool gives a DeclarationCommand and any other identifier a  *)
(* StatementCommand, and then exactly one SEMICOLON is consumed behind the *)
(* production, UnexpectedToken(expected SEMICOLON) being raised when the   *)
(* lookahead there is anything else; every other lookahead raises          *)
(* UnsupportedCommandToken and nothing is consumed.                        *)
(***************************************************************************)
\* The outcome of a production r wrapped by Wrap, no terminator consumed.
Unterminated(r, Wrap(_)) ==
  IF Raised(r) THEN last.exc = r.exc /\ last.val = PyNone
  ELSE /\ last.exc = NoExc
       /\ last.val = Wrap(r.val)
       /\ parser = r.p

\* The outcome of a production r wrapped by Wrap, one SEMICOLON consumed.
Terminated(r, Wrap(_)) ==
  IF Raised(r) THEN last.exc = r.exc /\ last.val = PyNone
  ELSE IF r.p.current_terminal.kind = "SEMICOLON"
  THEN /\ last.exc = NoExc
       /\ last.val = Wrap(r.val)
       /\ parser = Advance(r.p)
       /\ parser.scanner.scans = r.p.scanner.scans + 1
  ELSE /\ last.exc.type = "UnexpectedTokenException"
       /\ last.exc.expected_kind = "SEMICOLON"
       /\ last.exc.current_token = r.p.current_terminal
       /\ last.val = PyNone
       /\ parser = r.p

C11_SingleCommandDispatch ==
  last.op = "parse_single_command" =>
    LET lookahead == Constructed.current_terminal
    IN CASE lookahead.kind = "FUNC" ->
              Unterminated(parse_declaration(Constructed), DeclarationCommand)
         [] lookahead.kind \in {"RETURN", "IF", "WHILE"} ->
              Unterminated(parse_single_statement(Constructed),
                           StatementCommand)
         [] lookahead.kind = "IDENTIFIER"
              /\ lookahead.spelling \in {"int", "str", "bool"} ->
              Terminated(parse_declaration(Constructed), DeclarationCommand)
         [] lookahead.kind = "IDENTIFIER"
              /\ lookahead.spelling \notin {"int", "str", "bool"} ->
              Terminated(parse_single_statement(Constructed),
                         StatementCommand)
         [] OTHER ->
              /\ last.exc.type = "UnsupportedCommandTokenException"
              /\ last.exc.current_token = lookahead
              /\ last.val = PyNone
              /\ parser = Constructed

\* `return a ;`: the ReturnStatement is wrapped and `;` is left as lookahead.
C11_Witness ==
  /\ source = <<RETURN, Id("a"), SEMI>>
  /\ Returned("parse_single_command")
  /\ last.val = StatementCommand(ReturnStatement(Var("a")))
  /\ parser.current_terminal.kind = "SEMICOLON"

(***************************************************************************)
(* C12.  A return statement consumes the return-keyword and exactly one    *)
(* single-expression: its outcome is ReturnStatement over the result of    *)
(* parse_single_expression behind the keyword.  Behind an integer literal  *)
(* no operator is consumed (`return 1 + 2` gives ReturnStatement(1) and    *)
(* leaves `+` as lookahead); an identifier directly followed by an         *)
(* operator is a single-expression that holds the whole chain, so          *)
(* `return a + b` gives ReturnStatement(BinaryExpression(+, a, b)).        *)
(***************************************************************************)
C12_ReturnSingleExpression ==
  (last.op = "parse_single_statement" /\ TerminalAt(1).kind = "RETURN") =>
    LET single == parse_single_expression(Advance(Constructed))
    IN /\ IF Raised(single) THEN last.exc = single.exc /\ last.val = PyNone
          ELSE /\ last.exc = NoExc
               /\ last.val = ReturnStatement(single.val)
               /\ parser = single.p
       /\ TerminalAt(2).kind = "INTEGER_LITERAL" =>
            /\ last.val = ReturnStatement(
                            IntLiteralExpression(
                              IntegerLiteral(TerminalAt(2).spelling)))
            /\ Shows(parser.current_terminal, TerminalAt(3))
       /\ source = ReturnSum =>
            last.val = ReturnStatement(
                         BinaryExpression(Operator("+"), Var("a"), Var("b")))

\* `return 1 + 2`: the chain behind the literal is left in the stream.
C12_Witness ==
  /\ source = ReturnLit
  /\ Returned("parse_single_statement")
  /\ last.val = ReturnStatement(IntLiteralExpression(IntegerLiteral("1")))
  /\ parser.current_terminal.kind = "OPERATOR"

\* The statement as first worded: for every stream `return x1 op x2 ...`
\* the ReturnStatement's expression is never a BinaryExpression built from
\* the operators behind the first operand.
C12_NoChainAbsorbed ==
  (/\ Returned("parse_single_statement")
   /\ TerminalAt(1).kind = "RETURN"
   /\ TerminalAt(2).kind \in {"IDENTIFIER", "INTEGER_LITERAL"}
   /\ TerminalAt(3).kind = "OPERATOR") =>
    /\ last.val.expression.node # "BinaryExpression"
    /\ Shows(parser.current_terminal, TerminalAt(3))

(***************************************************************************)
(* C13.  On a boolean-literal lookahead parse_single_expression consumes   *)
(* exactly that terminal and returns a BooleanLiteralExpression whose      *)
(* literal carries the terminal's spelling, as an integer-literal          *)
(* lookahead is consumed into an IntLiteralExpression; so                  *)
(* `while (true) : end` parses.                                            *)
(***************************************************************************)
C13_BooleanLiteral ==
  /\ (/\ last.op = "parse_single_expression"
      /\ TerminalAt(1).kind = "BOOLEAN_LITERAL") =>
       /\ last.exc = NoExc
       /\ last.val.node = "BooleanLiteralExpression"
       /\ last.val.literal # PyNone
       /\ last.val.literal.spelling = TerminalAt(1).spelling
       /\ Shows(parser.current_terminal, TerminalAt(2))
       /\ parser.scanner.scans = Constructed.scanner.scans + 1
  /\ (/\ last.op = "parse_single_expression"
      /\ TerminalAt(1).kind = "INTEGER_LITERAL") =>
       /\ last.exc = NoExc
       /\ last.val =
            IntLiteralExpression(IntegerLiteral(TerminalAt(1).spelling))
       /\ Shows(parser.current_terminal, TerminalAt(2))
  /\ (source = WhileTrue /\ last.op = "parse_program") =>
       /\ last.exc = NoExc
       /\ last.val.node = "Program"

(***************************************************************************)
(* C14.  parse_identifier, parse_integer_literal and parse_operator        *)
(* behave like accept: on a lookahead of the helper's kind the leaf node   *)
(* with the lookahead's spelling is returned and the stream advances by    *)
(* one terminal; on any other lookahead UnexpectedToken is raised and      *)
(* nothing is consumed.  So no node is built around an absent leaf: the    *)
(* identifier of a VarDeclaration is never None.                           *)
(***************************************************************************)
\* The kind a leaf helper looks for, and the leaf it builds.
LeafKind(op) ==
  CASE op = "parse_identifier" -> "IDENTIFIER"
    [] op = "parse_integer_literal" -> "INTEGER_LITERAL"
    [] op = "parse_operator" -> "OPERATOR"

Leaf(op, spelling) ==
  CASE op = "parse_identifier" -> Identifier(spelling)
    [] op = "parse_integer_literal" -> IntegerLiteral(spelling)
    [] op = "parse_operator" -> Operator(spelling)

C14_LeafHelpers ==
  /\ last.op \in {"parse_identifier", "parse_integer_literal",
                  "parse_operator"} =>
       IF TerminalAt(1).kind = LeafKind(last.op)
       THEN /\ last.exc = NoExc
            /\ last.val = Leaf(last.op, TerminalAt(1).spelling)
            /\ parser = Advance(Constructed)
            /\ Shows(parser.current_terminal, TerminalAt(2))
       ELSE /\ last.exc.type = "UnexpectedTokenException"
            /\ last.exc.expected_kind = LeafKind(last.op)
            /\ parser = Constructed
  /\ (/\ Returned("parse_single_declaration")
      /\ last.val.node \in {"VarDeclaration",
                            "VarDeclarationWithAssignment"}) =>
       /\ last.val.identifier # PyNone
       /\ last.val.type_denoter.spelling # PyNone

(***************************************************************************)
(* C15.  parse_expressions_list on a lookahead that cannot start an        *)
(* expression (no identifier, integer literal, operator or boolean         *)
(* literal) consumes nothing and returns None, not an empty list, so the   *)
(* CallExpression of `f()` and the FuncDeclaration of `func f(): end` have *)
(* None as args; otherwise the list it returns has one expression more     *)
(* than commas were consumed for it, in source order.                      *)
(***************************************************************************)
ExpressionStart ==
  {"IDENTIFIER", "INTEGER_LITERAL", "OPERATOR", "BOOLEAN_LITERAL"}

RECURSIVE Commas(_, _)
\* The commas of toks that stand inside no parentheses; depth is the
\* number of parentheses open.
Commas(toks, depth) ==
  IF toks = << >> THEN 0
  ELSE LET kind == Head(toks).kind
       IN CASE kind = "LEFT_PAR" -> Commas(Tail(toks), depth + 1)
            [] kind = "RIGHT_PAR" -> Commas(Tail(toks), depth - 1)
            [] kind = "COMMA" /\ depth = 0 -> 1 + Commas(Tail(toks), depth)
            [] OTHER -> Commas(Tail(toks), depth)

\* The terminals of the source text a call has consumed.
Consumed == SubSeq(source, 1, parser.scanner.scans - 1)

C15_ExpressionsList ==
  /\ last.op = "parse_expressions_list" =>
       IF TerminalAt(1).kind \notin ExpressionStart
       THEN /\ last.exc = NoExc
            /\ last.val = PyNone
            /\ parser = Constructed
       ELSE last.exc = NoExc =>
              /\ last.val.node = "ExpressionsList"
              /\ Len(last.val.expressions) = 1 + Commas(Consumed, 0)
  /\ (/\ Returned("parse_expressions_list")
      /\ source = <<Id("a"), COMMA, IntLit("1")>>) =>
       last.val = ExpressionsList(
                    <<Var("a"), IntLiteralExpression(IntegerLiteral("1"))>>)
  /\ (/\ Returned("parse_single_expression")
      /\ TerminalAt(1).kind = "IDENTIFIER"
      /\ TerminalAt(2).kind = "LEFT_PAR"
      /\ TerminalAt(3).kind = "RIGHT_PAR") =>
       last.val = CallExpression(Identifier(TerminalAt(1).spelling), PyNone)
  /\ (/\ Returned("parse_single_declaration")
      /\ TerminalAt(1).kind = "FUNC"
      /\ TerminalAt(4).kind = "RIGHT_PAR") =>
       /\ last.val.node = "FuncDeclaration"
       /\ last.val.args = PyNone

\* `a ( )`: the call is built with None for its arguments.
C15_Witness ==
  /\ source = <<Id("a"), LPAR, RPAR>>
  /\ Returned("parse_single_expression")
  /\ last.val = CallExpression(Identifier("a"), PyNone)
  /\ parser.current_terminal.kind = "EOT"

(***************************************************************************)
(* C16.  In a function declaration the body kept in the node is the        *)
(* result of the first parse_command, and the second parse_command behind  *)
(* it returns an empty Command and consumes nothing: parse_command         *)
(* returns only on a lookahead that starts no command, and on such a       *)
(* lookahead it leaves lookahead and scanner as they are.  So `end` is     *)
(* accepted where the first parse_command stopped.                         *)
(***************************************************************************)
\* The parser where the body of `func <id> ( <args> ) :` begins.
BodyStart ==
  LET args == parse_expressions_list(Advance(Advance(Advance(Constructed))))
  IN Advance(Advance(args.p))

C16_SecondCommandEmpty ==
  /\ Returned("parse_command") =>
       /\ parser.current_terminal.kind \notin CommandStart
       /\ parse_command(parser) = Ret(parser, Command(<< >>))
  /\ (/\ last.op = "parse_command"
      /\ TerminalAt(1).kind \notin CommandStart) =>
       /\ last.exc = NoExc
       /\ last.val = Command(<< >>)
       /\ parser = Constructed
  /\ (Returned("parse_single_declaration") /\ TerminalAt(1).kind = "FUNC") =>
       LET first == parse_command(BodyStart)
       IN /\ first.exc = NoExc
          /\ last.val.commands = first.val
          /\ first.p.current_terminal.kind = "END"
          /\ parser = Advance(first.p)

\* `func add(a, b): return a + b end`: the body's one command is kept.
C16_Witness ==
  /\ source = FuncAddBare
  /\ Returned("parse_single_declaration")
  /\ Len(last.val.commands.commands) = 1
  /\ last.val.commands.commands[1].statement.node = "ReturnStatement"
  /\ parser.current_terminal.kind = "EOT"

(***************************************************************************)
(* C17.  parse_program terminates on every finite text: each iteration of  *)
(* the loops of parse_command, parse_declaration, parse_expression and     *)
(* parse_expressions_list consumes at least one terminal or raises         *)
(* (parse_single_command behind parse_command's loop condition,            *)
(* parse_single_declaration behind parse_declaration's, parse_operator on  *)
(* an operator, accept(COMMA) on a comma), so no loop spins on a           *)
(* lookahead, and parse_program never asks the scanner for more than the   *)
(* terminals of the text and one end-of-input terminal.  A production      *)
(* call as such may return having consumed nothing: parse_command and      *)
(* parse_declaration on a lookahead outside their loop condition return    *)
(* an empty sequence, and parse_single_expression on a boolean literal     *)
(* returns with the literal still the lookahead.                           *)
(***************************************************************************)
\* The call has consumed at least one terminal.
Progress == parser.scanner.scans > Constructed.scanner.scans

DeclarationStart(terminal) ==
  terminal.kind = "FUNC" \/ terminal.spelling \in {"int", "str", "bool"}

C17_LoopsConsume ==
  /\ (/\ last.op = "parse_single_command"
      /\ TerminalAt(1).kind \in
           {"IDENTIFIER", "FUNC", "IF", "WHILE", "RETURN"}) =>
       last.exc # NoExc \/ Progress
  /\ (/\ last.op = "parse_single_declaration"
      /\ DeclarationStart(TerminalAt(1))) =>
       last.exc # NoExc \/ Progress
  /\ (last.op = "parse_operator" /\ TerminalAt(1).kind = "OPERATOR") =>
       last.exc = NoExc /\ Progress
  /\ (/\ last.op = "accept"
      /\ last.arg = "COMMA"
      /\ TerminalAt(1).kind = "COMMA") =>
       last.exc = NoExc /\ Progress
  /\ last.op = "parse_program" =>
       parser.scanner.scans <= Len(source) + 1
  /\ (last.op = "parse_command" /\ TerminalAt(1).kind \notin CommandStart) =>
       last.exc = NoExc /\ ~Progress
  /\ (/\ last.op = "parse_declaration"
      /\ ~DeclarationStart(TerminalAt(1))) =>
       /\ last.exc = NoExc
       /\ last.val = Declaration(<< >>)
       /\ ~Progress
  /\ (/\ last.op = "parse_single_expression"
      /\ TerminalAt(1).kind = "BOOLEAN_LITERAL") =>
       last.exc = NoExc /\ ~Progress

\* `while ( true ) : end`: parse_program ends, with a diagnostic, the
\* boolean literal being the lookahead no production consumed.
C17_Witness ==
  /\ source = WhileTrue
  /\ last.op = "parse_program"
  /\ last.exc.type = "UnexpectedTokenException"
  /\ parser.current_terminal.kind = "BOOLEAN_LITERAL"
  /\ parser.scanner.scans = 3

\* The statement as first worded: every call of a production that the
\* productions call recursively consumes at least one terminal or fails.
RecursiveProductions ==
  {"parse_command", "parse_single_command", "parse_single_statement",
   "parse_declaration", "parse_single_declaration", "parse_expression",
   "parse_single_expression", "parse_expressions_list"}

C17_EveryCallConsumes ==
  last.op \in RecursiveProductions => (last.exc # NoExc \/ Progress)

(***************************************************************************)
(* C18.  The parser holds exactly one terminal of lookahead and never      *)
(* reads beyond the end of input: after every call of a production or a    *)
(* leaf helper the number of scan() calls made is the number of terminals  *)
(* consumed plus one, the lookahead is the terminal of the text at that    *)
(* place, and once the lookahead is the end-of-input terminal scan() is    *)
(* not called again: the end-of-input terminal is asked for once and is    *)
(* never consumed.  (accept(EOT) is called by no production.)              *)
(***************************************************************************)
\* The terminals that have been the lookahead and were replaced: those
\* taken from the text, less the one the parser holds.
ConsumedCount ==
  Len(source) - Len(parser.scanner.rest)
    - (IF parser.current_terminal.kind = "EOT" THEN 0 ELSE 1)

C18_OneTokenLookahead ==
  ~(last.op = "accept" /\ last.arg = "EOT") =>
    /\ parser.scanner.scans = ConsumedCount + 1
    /\ parser.scanner.scans <= Len(source) + 1
    /\ Shows(parser.current_terminal, TerminalAt(parser.scanner.scans))
    /\ parser.scanner.rest = Unscanned(parser.scanner.scans)
    /\ Constructed.current_terminal.kind = "EOT" => parser = Constructed

\* `a ;`: parse_program has consumed both terminals and holds end-of-input.
C18_Witness ==
  /\ source = <<Id("a"), SEMI>>
  /\ Returned("parse_program")
  /\ parser.current_terminal.kind = "EOT"
  /\ parser.scanner.scans = 3

====
